---------------------------- MODULE Spec2Model ----------------------------
(***************************************************************************)
(* The process lifecycle and swap engine of model-swap (process-manager.js, *)
(* src/unnamed/part_000) together with the route handlers of the server    *)
(* that drive it (server.js, embedded in src/build.sh).                     *)
(*                                                                         *)
(* Node.js runs one macrotask (an HTTP request, a timer, a child 'close'    *)
(* event, an I/O completion) to completion, including every continuation   *)
(* of an `await` on a promise that is already settled.  One action of this  *)
(* model is one such macrotask: a handler from its entry, or from the      *)
(* timer / I/O it was suspended on, to its next real suspension.           *)
(***************************************************************************)
EXTENDS Integers, Sequences, FiniteSets, TLC

(***************************************************************************)
(* Bounds of the model.                                                    *)
(***************************************************************************)
\* Number of request handlers that can be suspended at the same time.
MaxTasks == 2
\* Number of child OS processes of one Process that can be alive at once.
MaxChildren == 2
\* Number of calls clients make (requests, proxyRequest calls, unloads).
MaxCalls == 3
\* Largest in-flight counter the direct-call specification starts from.
MaxInFlight == 2
\* Largest number of aliases one model declares in the configuration file.
MaxAliases == 1
\* Largest number of members one group declares in the configuration file.
MaxMembers == 2

(***************************************************************************)
(* ProcessState and StopStrategy.                                          *)
(***************************************************************************)
STOPPED  == "stopped"
STARTING == "starting"
READY    == "ready"
STOPPING == "stopping"
SHUTDOWN == "shutdown"
ProcessState == {STOPPED, STARTING, READY, STOPPING, SHUTDOWN}

IMMEDIATELY       == "immediately"
WAIT_FOR_INFLIGHT == "wait_for_inflight"
StopStrategy == {IMMEDIATELY, WAIT_FOR_INFLIGHT}

(***************************************************************************)
(* The loaded configuration (config.models, config.groups, config.aliases).*)
(* G1 has the flags of the synthetic default group; G2 lets its members    *)
(* run side by side; GP is persistent.                                     *)
(***************************************************************************)
Models == {"A", "B", "C", "D"}
GroupOrder == <<"G1", "G2", "GP">>
Groups == {GroupOrder[i] : i \in 1..Len(GroupOrder)}

GroupMembers ==
  [g \in Groups |-> CASE g = "G1" -> <<"A", "B">>
                      [] g = "G2" -> <<"C">>
                      [] OTHER    -> <<"D">>]

GroupSwap       == [g \in Groups |-> g \in {"G1", "GP"}]
GroupExclusive  == [g \in Groups |-> g = "G1"]
GroupPersistent == [g \in Groups |-> g = "GP"]

Aliases == [n \in {"a"} |-> "A"]
\* Names a client may send: model ids, an alias, and a name that is neither.
Names == Models \cup DOMAIN Aliases \cup {"nope"}

\* config.models[id].checkEndpoint is 'none' for these models.
NoHealthCheck == {"B", "C", "D"}
\* config.models[id].unloadAfter > 0 for these models.
HasTTL == {"A"}

NoModel == ""
NoGroup == "null"
ChildIds == 1..MaxChildren
Tasks == 1..MaxTasks

VARIABLES
  state,            \* Process.state
  process,          \* Process.process: 0 for null, else the child last spawned
  children,         \* the child OS processes of each Process that are alive
  signalled,        \* alive children the termination action was issued to
  inFlightRequests, \* Process.inFlightRequests
  expired,          \* Date.now() - lastRequestHandled > unloadAfter * 1000
  idle,             \* more than unloadAfter has passed since the Process
                    \* last released a request (observation only)
  ttl,              \* number of armed TTL intervals of each Process
  stopPolls,        \* Processes with a stop() polling the in-flight counter
  lastUsedProcess,  \* ProcessGroup.lastUsedProcess
  lastActiveGroup,  \* ProcessManager.lastActiveGroup
  shutdown,         \* ProcessManager.shutdown
  pc,               \* where each handler is suspended
  kind,             \* which entry point each handler runs
  model,            \* the real model id each handler works for
  old,              \* the Process the handler's within-group step stopped
  swapStopped,      \* Processes the handler's cross-group steps stopped
  calls,            \* number of calls clients have made so far
  yamlData,         \* the parsed configuration file handed to loadConfig
  config,           \* what loadConfig returned or threw
  waited,           \* for a start() in its coalescing wait: the state the
                    \* Process took when it left STARTING (observation only)
  stopTarget,       \* for a stop() in its wait: this.process at the time of
                    \* the call (observation only)
  aged,             \* the Process is READY and more than unloadAfter has
                    \* passed since it became READY (observation only)
  last              \* what the latest macrotask did (observation only)

vars == <<state, process, children, signalled, inFlightRequests, expired,
          idle, ttl, stopPolls, lastUsedProcess, lastActiveGroup, shutdown,
          pc, kind, model, old, swapStopped, calls, yamlData, config, waited,
          stopTarget, aged, last>>


(***************************************************************************)
(* Configuration lookups.                                                  *)
(***************************************************************************)
Range(seq) == {seq[i] : i \in 1..Len(seq)}

\* ProcessGroup.hasMember
hasMember(g, m) == m \in Range(GroupMembers[g])

\* ProcessManager.findGroupByModelName: the first group, in the order of the
\* processGroups map, that has the model; NoGroup when there is none.
findGroupByModelName(m) ==
  LET hits == {i \in 1..Len(GroupOrder) : hasMember(GroupOrder[i], m)}
  IN  IF hits = {} THEN NoGroup
      ELSE GroupOrder[CHOOSE i \in hits : \A j \in hits : i <= j]

\* A resolution that falls back on the first configured model.
realModelNameFallback(n) ==
  IF n \in DOMAIN Aliases THEN Aliases[n]
  ELSE IF n \in Models THEN n ELSE GroupMembers[GroupOrder[1]][1]

\* swapProcessGroup's resolution of the requested name (aliases first, then
\* model ids; NoModel for null).
realModelName(n) ==
  IF n \in DOMAIN Aliases THEN Aliases[n]
  ELSE IF n \in Models THEN n ELSE NoModel

(***************************************************************************)
(* The program state as one record, so that the calls a macrotask makes    *)
(* compose: every operator below takes the state before a call and gives   *)
(* the state after it.  ev, stops, kills and spawns collect what the       *)
(* macrotask did: the stateChange events it emitted (in order), the        *)
(* Processes stop() was called on, the Processes whose child was sent the  *)
(* termination action, and the Processes a child was spawned for.  The     *)
(* variable `last` keeps them, with the name of the macrotask, its handler,*)
(* the model it worked for, that model's in-flight counter, state, idle    *)
(* time and armed intervals before it, and the response it sent, if any.   *)
(***************************************************************************)
Now ==
  [state |-> state, process |-> process, children |-> children,
   signalled |-> signalled, inFlightRequests |-> inFlightRequests,
   expired |-> expired, idle |-> idle, ttl |-> ttl, stopPolls |-> stopPolls,
   lastUsedProcess |-> lastUsedProcess, lastActiveGroup |-> lastActiveGroup,
   shutdown |-> shutdown,
   ev |-> <<>>, stops |-> {}, kills |-> {}, spawns |-> {}]

\* Process.setState: assigns the state and emits stateChange(id, old, new).
\* `by` names the call site.
setState(s, p, newState, by) ==
  [s EXCEPT !.state[p] = newState,
            !.ev = Append(@, [id |-> p, oldState |-> s.state[p],
                              newState |-> newState, by |-> by])]

\* Process.stopCommand: without a child handle nothing happens; otherwise the
\* termination action (cmdStop with the handle's pid, or SIGTERM) goes to the
\* child the handle names, which it reaches only if that child is alive.
stopCommand(s, p) ==
  IF s.process[p] = 0 THEN s
  ELSE [s EXCEPT !.kills = @ \cup {p},
                 !.signalled[p] = @ \cup ({s.process[p]} \cap s.children[p])]

\* stop without the early return.
stopUnguarded(s, p, strategy) ==
  LET s0 == [s EXCEPT !.stops = @ \cup {p}]
      s1 == setState(s0, p, STOPPING, "stop")
  IN  IF strategy = WAIT_FOR_INFLIGHT /\ s1.inFlightRequests[p] > 0
      THEN [s1 EXCEPT !.stopPolls = @ \cup {p}]
      ELSE stopCommand(s1, p)

\* Process.stop, from the call to its return or to its first poll of the
\* in-flight counter.
stop(s, p, strategy) ==
  LET s0 == [s EXCEPT !.stops = @ \cup {p}]
  IN  IF s.state[p] \in {STOPPED, STOPPING, SHUTDOWN} THEN s0
      ELSE LET s1 == setState(s0, p, STOPPING, "stop")
           IN  IF strategy = WAIT_FOR_INFLIGHT /\ s1.inFlightRequests[p] > 0
               THEN [s1 EXCEPT !.stopPolls = @ \cup {p}]
               ELSE stopCommand(s1, p)

\* stop() on the Processes ps[i..], in order.
RECURSIVE stopEach(_, _, _, _)
stopEach(s, ps, i, strategy) ==
  IF i > Len(ps) THEN s
  ELSE stopEach(stop(s, ps[i], strategy), ps, i + 1, strategy)

\* ProcessGroup.stopProcesses
stopProcesses(s, g, strategy) == stopEach(s, GroupMembers[g], 1, strategy)

\* Process.handleProcessExit: every branch of the switch sets STOPPED.
handleProcessExit(s, p) == setState(s, p, STOPPED, "exit")

\* Process.addInFlightRequest
addInFlightRequest(s, p) ==
  [s EXCEPT !.inFlightRequests[p] = @ + 1,
            !.expired[p] = IF p \in HasTTL THEN FALSE ELSE @]

\* removeInFlightRequest without the clamp at 0.
removeInFlightRequestUnclamped(s, p) ==
  [s EXCEPT !.inFlightRequests[p] = @ - 1,
            !.idle[p] = IF p \in HasTTL /\ s.inFlightRequests[p] > 0
                        THEN FALSE ELSE @]

\* Process.removeInFlightRequest.  lastRequestHandled is left alone; `idle`
\* notes that a request has just been released.
removeInFlightRequest(s, p) ==
  [s EXCEPT !.inFlightRequests[p] = IF @ - 1 < 0 THEN 0 ELSE @ - 1,
            !.idle[p] = IF p \in HasTTL /\ s.inFlightRequests[p] > 0
                        THEN FALSE ELSE @]


(***************************************************************************)
(* Process.start.  A call is suspended at "startWait" (polling while the   *)
(* state is STARTING), "startDelay" (the 250 ms after the spawn), "probe"  *)
(* (a health request is out) or "probeSleep" (between two probes); it has  *)
(* returned at "true" or "false".  "blocked" marks a spawn the bound       *)
(* MaxChildren leaves no room for.                                         *)
(***************************************************************************)
StartOutcomes == {"true", "false", "startWait", "startDelay", "probe",
                  "probeSleep", "blocked"}

\* Process.startTTLCheck arms one more interval.
startTTLCheck(s, p) == [s EXCEPT !.ttl[p] = @ + 1]

\* The end of the try block: arm the TTL check, READY, return true.
startSucceed(s, p) ==
  LET s1 == IF p \in HasTTL THEN startTTLCheck(s, p) ELSE s
  IN  [s |-> setState(s1, p, READY, "start"), at |-> "true"]

\* The catch block: STOPPED, return false.
startCatch(s, p) ==
  [s |-> setState(s, p, STOPPED, "catch"), at |-> "false"]

\* start() from the call to its first suspension.  `throws` says whether
\* spawn throws.
startCall(s, p, throws) ==
  IF s.state[p] = READY THEN [s |-> s, at |-> "true"]
  ELSE IF s.state[p] = STARTING THEN [s |-> s, at |-> "startWait"]
  ELSE IF s.state[p] # STOPPED /\ s.state[p] # STOPPING
       THEN [s |-> s, at |-> "false"]
  ELSE LET s1 == setState(s, p, STARTING, "start")
           free == ChildIds \ s.children[p]
           c == CHOOSE i \in free : \A j \in free : i <= j
       IN  IF throws THEN startCatch(s1, p)
           ELSE IF free = {} THEN [s |-> s, at |-> "blocked"]
           ELSE [s |-> [s1 EXCEPT !.process[p] = c,
                                  !.children[p] = @ \cup {c},
                                  !.spawns = @ \cup {p}],
                 at |-> "startDelay"]

\* The top of one iteration of the health loop whose condition held.
startProbeLoop(s, p) ==
  IF s.state[p] # STARTING THEN [s |-> s, at |-> "false"]
  ELSE [s |-> s, at |-> "probe"]

\* The 250 ms timer fires.
startAfterDelay(s, p) ==
  IF p \notin NoHealthCheck THEN startProbeLoop(s, p)
  ELSE startSucceed(s, p)

\* The probe settles: with status 200 the loop ends and start succeeds; any
\* other status, an error or the 5 s timeout sleeps healthCheckLoopInterval.
startAfterProbe(s, p, status200) ==
  IF status200 THEN startSucceed(s, p)
  ELSE [s |-> s, at |-> "probeSleep"]

\* The sleep between probes ends: past healthCheckTimeout the loop ends and
\* the timeout error is thrown, otherwise the next iteration begins.
startAfterProbeSleep(s, p, timedOut) ==
  IF timedOut THEN startCatch(s, p) ELSE startProbeLoop(s, p)

\* A poll of the coalescing wait that finds the state no longer STARTING.
startAfterWait(s, p) ==
  [s |-> s, at |-> IF s.state[p] = READY THEN "true" ELSE "false"]

(***************************************************************************)
(* ProcessManager.swapProcessGroup.                                        *)
(***************************************************************************)
\* exclusiveOthers without the test of otherGroup.persistent.
exclusiveOthersAll(g) ==
  SelectSeq(GroupOrder, LAMBDA h : h # g)

\* The groups the exclusive step stops, in the order of the processGroups map.
exclusiveOthers(g) ==
  SelectSeq(GroupOrder, LAMBDA h : h # g /\ ~GroupPersistent[h])

\* stopProcesses(WAIT_FOR_INFLIGHT) and the clearing of lastUsedProcess for
\* the groups gs[i..], in order.
RECURSIVE stopGroups(_, _, _)
stopGroups(s, gs, i) ==
  IF i > Len(gs) THEN s
  ELSE stopGroups([stopProcesses(s, gs[i], WAIT_FOR_INFLIGHT)
                     EXCEPT !.lastUsedProcess[gs[i]] = NoModel], gs, i + 1)

\* The cross-group step.
swapCrossGroup(s, g) ==
  IF /\ s.lastActiveGroup # NoGroup
     /\ s.lastActiveGroup # g
     /\ ~GroupPersistent[s.lastActiveGroup]
     /\ ~GroupPersistent[g]
  THEN stopGroups(s, <<s.lastActiveGroup>>, 1)
  ELSE s

\* The exclusive step.
swapExclusive(s, g) ==
  IF GroupExclusive[g] THEN stopGroups(s, exclusiveOthers(g), 1) ELSE s

\* The Process the within-group step stops and waits for; NoModel if none.
swapOldProcess(s, g, m) ==
  IF /\ GroupSwap[g]
     /\ s.lastUsedProcess[g] # m
     /\ s.lastUsedProcess[g] # NoModel
     /\ hasMember(g, s.lastUsedProcess[g])
     /\ s.state[s.lastUsedProcess[g]] = READY
  THEN s.lastUsedProcess[g] ELSE NoModel

\* The tracking update before swapProcessGroup returns.
swapTrack(s, g, m) ==
  [s EXCEPT !.lastActiveGroup = g, !.lastUsedProcess[g] = m]

\* swapProcessGroup for the real model id m, up to its return (old = NoModel)
\* or to the wait for the stopped member `old` to leave STOPPING.
swapProcessGroup(s, m) ==
  LET g  == findGroupByModelName(m)
      s2 == swapExclusive(swapCrossGroup(s, g), g)
      o  == swapOldProcess(s2, g, m)
      stopped == {p \in Models : s2.state[p] = STOPPING /\ s.state[p] # STOPPING}
  IN  IF o = NoModel
      THEN [s |-> swapTrack(s2, g, m), old |-> NoModel, stopped |-> stopped]
      ELSE [s |-> stop(s2, o, WAIT_FOR_INFLIGHT), old |-> o, stopped |-> stopped]


(***************************************************************************)
(* ProcessGroup.proxyRequest, ProcessGroup.stopProcess,                    *)
(* ProcessGroup.shutdown and ProcessManager.shutdownAll.                   *)
(***************************************************************************)
\* The member proxyRequest's swap branch stops; NoModel if none.
proxyOldProcess(s, g) ==
  LET o == s.lastUsedProcess[g]
  IN  IF o # NoModel /\ hasMember(g, o) /\ s.state[o] = READY
      THEN o ELSE NoModel

\* proxyRequest's swap branch up to the call of start(): the previously
\* used member is stopped if it is READY; nothing waits for it to exit.
proxySwapStop(s, g) ==
  IF proxyOldProcess(s, g) = NoModel THEN s
  ELSE stop(s, proxyOldProcess(s, g), WAIT_FOR_INFLIGHT)

\* Whether proxyRequest goes through its swap branch.
proxySwaps(s, g, m) == GroupSwap[g] /\ s.lastUsedProcess[g] # m

\* proxyRequest from the registration of the request to the forwarding.
proxyRegister(s, m) == addInFlightRequest(s, m)

\* ProcessGroup.stopProcess
stopProcess(s, g, m, strategy) ==
  LET s1 == IF s.lastUsedProcess[g] = m
            THEN [s EXCEPT !.lastUsedProcess[g] = NoModel] ELSE s
  IN  stop(s1, m, strategy)

\* ProcessGroup.shutdown for the members ps[i..]: stop(IMMEDIATELY), then
\* setState(SHUTDOWN).
RECURSIVE shutdownEach(_, _, _)
shutdownEach(s, ps, i) ==
  IF i > Len(ps) THEN s
  ELSE shutdownEach(setState(stop(s, ps[i], IMMEDIATELY), ps[i], SHUTDOWN,
                             "shutdown"), ps, i + 1)

\* ProcessManager.shutdownAll over the groups gs[i..].
RECURSIVE shutdownGroups(_, _, _)
shutdownGroups(s, gs, i) ==
  IF i > Len(gs) THEN s
  ELSE shutdownGroups(shutdownEach(s, GroupMembers[gs[i]], 1), gs, i + 1)

shutdownAll(s) == shutdownGroups([s EXCEPT !.shutdown = TRUE], GroupOrder, 1)

(***************************************************************************)
(* The macrotasks.                                                         *)
(***************************************************************************)
Suspended == {"swapWait", "startWait", "startDelay", "probe", "probeSleep"}

TypeOK ==
  /\ state \in [Models -> ProcessState]
  /\ process \in [Models -> 0..MaxChildren]
  /\ children \in [Models -> SUBSET ChildIds]
  /\ signalled \in [Models -> SUBSET ChildIds]
  /\ inFlightRequests \in [Models -> Int]
  /\ expired \in [Models -> BOOLEAN]
  /\ idle \in [Models -> BOOLEAN]
  /\ ttl \in [Models -> Nat]
  /\ stopPolls \subseteq Models
  /\ lastUsedProcess \in [Groups -> Models \cup {NoModel}]
  /\ lastActiveGroup \in Groups \cup {NoGroup}
  /\ shutdown \in BOOLEAN
  /\ pc \in [Tasks -> Suspended \cup {"idle", "forward", "stopWait"}]
  /\ kind \in [Tasks -> {"none", "request", "proxyRequest", "start", "stop",
                          "spawnError"}]
  /\ model \in [Tasks -> Models \cup {NoModel}]
  /\ old \in [Tasks -> Models \cup {NoModel}]
  /\ swapStopped \in [Tasks -> SUBSET Models]
  /\ calls \in 0..MaxCalls
  /\ config.ok \in BOOLEAN
  /\ waited \in [Tasks -> ProcessState \cup {"-"}]
  /\ stopTarget \in [Tasks -> 0..MaxChildren]
  /\ aged \in [Models -> BOOLEAN]

\* The configuration file has not been read (the process manager of the
\* specifications below runs on the configuration given above).
Unread == [ok |-> FALSE, error |-> "unread"]

NoChange == [op |-> "init", task |-> 0, model |-> NoModel, ev |-> <<>>,
             stops |-> {}, kills |-> {}, spawns |-> {}, result |-> "-",
             inFlightBefore |-> 0, stateBefore |-> "-",
             expiredBefore |-> FALSE, ttlBefore |-> 0]

\* The state after construction: every Process STOPPED without a child,
\* lastRequestHandled = new Date(0), no group used yet.
Init ==
  /\ state = [p \in Models |-> STOPPED]
  /\ process = [p \in Models |-> 0]
  /\ children = [p \in Models |-> {}]
  /\ signalled = [p \in Models |-> {}]
  /\ inFlightRequests = [p \in Models |-> 0]
  /\ expired = [p \in Models |-> TRUE]
  /\ idle = [p \in Models |-> TRUE]
  /\ ttl = [p \in Models |-> 0]
  /\ stopPolls = {}
  /\ lastUsedProcess = [g \in Groups |-> NoModel]
  /\ lastActiveGroup = NoGroup
  /\ shutdown = FALSE
  /\ pc = [t \in Tasks |-> "idle"]
  /\ kind = [t \in Tasks |-> "none"]
  /\ model = [t \in Tasks |-> NoModel]
  /\ old = [t \in Tasks |-> NoModel]
  /\ swapStopped = [t \in Tasks |-> {}]
  /\ calls = 0
  /\ yamlData = Unread
  /\ config = Unread
  /\ waited = [t \in Tasks |-> "-"]
  /\ stopTarget = [t \in Tasks |-> 0]
  /\ aged = [p \in Models |-> FALSE]
  /\ last = NoChange

\* The program variables take the values of the record s.
Store(s) ==
  /\ state' = s.state
  /\ process' = s.process
  /\ children' = s.children
  /\ signalled' = s.signalled
  /\ inFlightRequests' = s.inFlightRequests
  /\ expired' = s.expired
  /\ idle' = s.idle
  /\ ttl' = s.ttl
  /\ stopPolls' = s.stopPolls
  /\ lastUsedProcess' = s.lastUsedProcess
  /\ lastActiveGroup' = s.lastActiveGroup
  /\ shutdown' = s.shutdown

\* The state the first stateChange of ev that takes p out of STARTING leads
\* to; "-" if there is none.
LeftStarting(ev, p) ==
  LET hits == {i \in 1..Len(ev) : ev[i].id = p /\ ev[i].oldState = STARTING}
  IN  IF hits = {} THEN "-"
      ELSE ev[CHOOSE i \in hits : \A j \in hits : i <= j].newState

\* The macrotask set the state of p to READY.
BecameReady(ev, p) ==
  \E i \in 1..Len(ev) : ev[i].id = p /\ ev[i].newState = READY

\* The record of the macrotask; the handlers' new positions are given first.
Did(s, op, t, m, result) ==
  /\ UNCHANGED <<yamlData, config>>
  /\ waited' = [u \in Tasks |->
                  IF pc'[u] # "startWait" \/ pc[u] # "startWait" THEN "-"
                  ELSE IF waited[u] # "-" THEN waited[u]
                  ELSE LeftStarting(s.ev, model[u])]
  /\ stopTarget' = [u \in Tasks |->
                      IF pc'[u] # "stopWait" THEN 0
                      ELSE IF pc[u] # "stopWait" THEN process[model'[u]]
                      ELSE stopTarget[u]]
  /\ aged' = [p \in Models |->
                IF s.state[p] # READY \/ BecameReady(s.ev, p) THEN FALSE
                ELSE IF op = "Elapse" /\ m = p THEN TRUE
                ELSE aged[p]]
  /\ last' =
       [op |-> op, task |-> t, model |-> m, ev |-> s.ev, stops |-> s.stops,
        kills |-> s.kills, spawns |-> s.spawns, result |-> result,
        inFlightBefore |-> IF m \in Models THEN inFlightRequests[m] ELSE 0,
        stateBefore |-> IF m \in Models THEN state[m] ELSE "-",
        expiredBefore |-> IF m \in Models THEN expired[m] ELSE FALSE,
        ttlBefore |-> IF m \in Models THEN ttl[m] ELSE 0]

\* A macrotask that belongs to no handler.
Event(s, op, m) ==
  /\ Store(s)
  /\ UNCHANGED <<pc, kind, model, old, swapStopped>>
  /\ Did(s, op, 0, m, "-")

\* A client makes one more call, within the bound; anything else makes none.
Call == calls < MaxCalls /\ calls' = calls + 1
NoCall == UNCHANGED calls

\* Handler t is suspended at `at`.
Suspend(s, op, t, at, k, m, o, st) ==
  /\ Store(s)
  /\ pc' = [pc EXCEPT ![t] = at]
  /\ kind' = [kind EXCEPT ![t] = k]
  /\ model' = [model EXCEPT ![t] = m]
  /\ old' = [old EXCEPT ![t] = o]
  /\ swapStopped' = [swapStopped EXCEPT ![t] = st]
  /\ Did(s, op, t, m, "-")

\* Handler t has responded: "ok" after handing the request to the proxy,
\* "fail" after an error response.
Respond(s, op, t, m, result) ==
  /\ Store(s)
  /\ pc' = [pc EXCEPT ![t] = "idle"]
  /\ kind' = [kind EXCEPT ![t] = "none"]
  /\ model' = [model EXCEPT ![t] = NoModel]
  /\ old' = [old EXCEPT ![t] = NoModel]
  /\ swapStopped' = [swapStopped EXCEPT ![t] = {}]
  /\ Did(s, op, t, m, result)

\* No handler is inside the synchronous forwarding block of proxyRequest.
NoForward == \A t \in Tasks : pc[t] # "forward"

\* Handlers are interchangeable: a new one takes the first free slot.
Free(t) == pc[t] = "idle" /\ \A u \in Tasks : u < t => pc[u] # "idle"

\* What handler t of kind k does once start() has got to r.at for model m.
AfterStart(r, op, t, k, m, o, st) ==
  /\ r.at # "blocked"
  /\ IF r.at \in Suspended THEN Suspend(r.s, op, t, r.at, k, m, o, st)
     ELSE IF r.at = "false" THEN Respond(r.s, op, t, m, "fail")
     ELSE IF k # "proxyRequest" THEN Respond(r.s, op, t, m, "ok")
     ELSE LET g  == findGroupByModelName(m)
              s1 == [r.s EXCEPT !.lastUsedProcess[g] = m]
          IN  Suspend(proxyRegister(s1, m), op, t, "forward", k, m, o, st)

\* The route handler after swapProcessGroup has returned: start() unless the
\* Process is READY, then the proxy.
AfterSwap(s, op, t, m, o, st, throws) ==
  LET r == IF s.state[m] # READY THEN startCall(s, m, throws)
           ELSE [s |-> s, at |-> "true"]
  IN  AfterStart(r, op, t, "request", m, o, st)


\* A route handler of the server receives a request naming n: it calls
\* swapProcessGroup(n) and, when that returns, start() and the proxy.
Request(t, n, throws) ==
  /\ NoForward
  /\ Call
  /\ Free(t)
  /\ LET m == realModelName(n)
     IN  IF m = NoModel \/ findGroupByModelName(m) = NoGroup
         THEN Respond(Now, "Request", t, NoModel, "fail")
         ELSE LET w == swapProcessGroup(Now, m)
              IN  IF w.old # NoModel
                  THEN Suspend(w.s, "Request", t, "swapWait", "request", m,
                               w.old, w.stopped)
                  ELSE AfterSwap(w.s, "Request", t, m, NoModel, w.stopped,
                                 throws)

\* A poll of swapProcessGroup's wait finds the stopped member out of
\* STOPPING: the tracking is updated and the route handler goes on.
SwapWaitDone(t, throws) ==
  /\ NoForward
  /\ NoCall
  /\ pc[t] = "swapWait"
  /\ state[old[t]] # STOPPING
  /\ AfterSwap(swapTrack(Now, findGroupByModelName(model[t]), model[t]),
               "SwapWaitDone", t, model[t], old[t], swapStopped[t], throws)

\* ProcessGroup.proxyRequest(m) is called on group g.
ProxyRequest(t, g, m, throws) ==
  /\ NoForward
  /\ Call
  /\ Free(t)
  /\ IF ~hasMember(g, m) THEN Respond(Now, "ProxyRequest", t, NoModel, "fail")
     ELSE IF proxySwaps(Now, g, m)
     THEN AfterStart(startCall(proxySwapStop(Now, g), m, throws),
                     "ProxyRequest", t, "proxyRequest", m,
                     proxyOldProcess(Now, g), {})
     ELSE Suspend(proxyRegister(Now, m), "ProxyRequest", t, "forward",
                  "proxyRequest", m, NoModel, {})

\* Forward without the finally clause: a throw skips the release.
ForwardNoFinally(t, throws) ==
  /\ NoCall
  /\ pc[t] = "forward"
  /\ Respond(IF throws THEN Now ELSE removeInFlightRequest(Now, model[t]),
             "Forward", t, model[t], IF throws THEN "fail" ELSE "ok")

\* The forwarding block of proxyRequest ends, normally or by a throw; the
\* finally clause releases the request.
Forward(t, throws) ==
  /\ NoCall
  /\ pc[t] = "forward"
  /\ Respond(removeInFlightRequest(Now, model[t]), "Forward", t, model[t],
             IF throws THEN "fail" ELSE "ok")

\* The 250 ms timer of a start() fires.
StartDelayDone(t) ==
  /\ NoForward
  /\ NoCall
  /\ pc[t] = "startDelay"
  /\ AfterStart(startAfterDelay(Now, model[t]), "StartDelayDone", t, kind[t],
                model[t], old[t], swapStopped[t])

\* A health probe settles.  Only an alive child can answer with status 200.
ProbeDone(t, status200) ==
  /\ NoForward
  /\ NoCall
  /\ pc[t] = "probe"
  /\ status200 => children[model[t]] # {}
  /\ AfterStart(startAfterProbe(Now, model[t], status200), "ProbeDone", t,
                kind[t], model[t], old[t], swapStopped[t])

\* The sleep between two probes ends, before or after healthCheckTimeout.
ProbeSleepDone(t, timedOut) ==
  /\ NoForward
  /\ NoCall
  /\ pc[t] = "probeSleep"
  /\ AfterStart(startAfterProbeSleep(Now, model[t], timedOut),
                "ProbeSleepDone", t, kind[t], model[t], old[t],
                swapStopped[t])

\* A poll of start()'s coalescing wait finds the state out of STARTING.
StartWaitDone(t) ==
  /\ NoForward
  /\ NoCall
  /\ pc[t] = "startWait"
  /\ state[model[t]] # STARTING
  /\ AfterStart(startAfterWait(Now, model[t]), "StartWaitDone", t, kind[t],
                model[t], old[t], swapStopped[t])

\* Child c of Process p exits (signalled or on its own): 'close' fires.
ChildExit(p, c) ==
  /\ NoForward
  /\ NoCall
  /\ c \in children[p]
  /\ Event(handleProcessExit([Now EXCEPT !.children[p] = @ \ {c},
                                         !.signalled[p] = @ \ {c}], p),
           "ChildExit", p)

\* ttlTick without the test of the in-flight counter.
ttlTickBusy(s, p) ==
  IF s.state[p] # READY THEN [s EXCEPT !.ttl[p] = @ - 1]
  ELSE IF s.expired[p]
       THEN [stop(s, p, IMMEDIATELY) EXCEPT !.ttl[p] = @ - 1]
       ELSE s

\* One tick of an armed TTL interval of p.
ttlTick(s, p) ==
  IF s.state[p] # READY THEN [s EXCEPT !.ttl[p] = @ - 1]
  ELSE IF s.inFlightRequests[p] > 0 THEN s
  ELSE IF s.expired[p]
       THEN [stop(s, p, IMMEDIATELY) EXCEPT !.ttl[p] = @ - 1]
       ELSE s

TTLTick(p) ==
  /\ NoForward
  /\ NoCall
  /\ ttl[p] > 0
  /\ Event(ttlTick(Now, p), "TTLTick", p)

\* More than unloadAfter passes since p last registered or released a
\* request and since p became READY.
Elapse(p) ==
  /\ NoForward
  /\ NoCall
  /\ p \in HasTTL
  /\ ~expired[p] \/ ~idle[p] \/ (state[p] = READY /\ ~aged[p])
  /\ Event([Now EXCEPT !.expired[p] = TRUE, !.idle[p] = TRUE], "Elapse", p)

\* GET /unload, POST /api/models/unload, SIGINT, SIGTERM.
ShutdownAll ==
  /\ NoForward
  /\ Call
  /\ Event(shutdownAll(Now), "ShutdownAll", NoModel)

\* POST /api/models/unload/:model
UnloadModel(m) ==
  /\ NoForward
  /\ Call
  /\ findGroupByModelName(m) # NoGroup
  /\ Event(stopProcess(Now, findGroupByModelName(m), m, IMMEDIATELY),
           "UnloadModel", m)

Next ==
  \/ \E t \in Tasks, n \in Names, throws \in BOOLEAN : Request(t, n, throws)
  \/ \E t \in Tasks, throws \in BOOLEAN : SwapWaitDone(t, throws)
  \/ \E t \in Tasks, g \in Groups, m \in Models, throws \in BOOLEAN :
       ProxyRequest(t, g, m, throws)
  \/ \E t \in Tasks, throws \in BOOLEAN : Forward(t, throws)
  \/ \E t \in Tasks : StartDelayDone(t)
  \/ \E t \in Tasks, status200 \in BOOLEAN : ProbeDone(t, status200)
  \/ \E t \in Tasks, timedOut \in BOOLEAN : ProbeSleepDone(t, timedOut)
  \/ \E t \in Tasks : StartWaitDone(t)
  \/ \E p \in Models, c \in ChildIds : ChildExit(p, c)
  \/ \E p \in Models : TTLTick(p)
  \/ \E p \in Models : Elapse(p)
  \/ ShutdownAll
  \/ \E m \in Models : UnloadModel(m)

Spec == Init /\ [][Next]_vars


(***************************************************************************)
(* Properties.                                                             *)
(***************************************************************************)
GroupOf(p) == findGroupByModelName(p)
MembersOf(g) == Range(GroupMembers[g])
ReadyIn(g) == {p \in MembersOf(g) : state[p] = READY}
\* The latest macrotask was a step of a handler working for a model.
HandlerStep == last.task # 0 /\ last.model # NoModel
\* The latest macrotask spawned a child for the model its handler works for.
SpawnedTarget == HandlerStep /\ last.model \in last.spawns

\* C1: whenever a member of a non-persistent exclusive group is READY, no
\* member of any other non-persistent group is STARTING or READY.
C1_ExclusiveAlone ==
  \A g \in Groups :
    (~GroupPersistent[g] /\ GroupExclusive[g] /\ ReadyIn(g) # {}) =>
      \A h \in Groups \ {g} :
        ~GroupPersistent[h] =>
          \A q \in MembersOf(h) : state[q] \notin {STARTING, READY}

\* C2: in every group with swap=true at most one member is READY.
C2_OneReadyPerSwapGroup ==
  \A g \in Groups : GroupSwap[g] => Cardinality(ReadyIn(g)) <= 1

\* C3: at most one child OS process of a Process is alive at any time.
C3_OneChildPerModel ==
  \A p \in Models : Cardinality(children[p]) <= 1

\* C4: when a request spawns the child of its target, no Process that the
\* cross-group and exclusive steps of its swap stopped is still STOPPING
\* with a live child.
C4_StoppedBeforeSpawn ==
  SpawnedTarget =>
    \A p \in swapStopped[last.task] :
      ~(state[p] = STOPPING /\ children[p] # {})

\* C5: when a request for a member of a swap group spawns its child after
\* stopping the previously used READY member, that member is STOPPED and
\* its child has exited.
C5_OldExitedBeforeSpawn ==
  (SpawnedTarget /\ old[last.task] # NoModel) =>
    (state[old[last.task]] = STOPPED /\ children[old[last.task]] = {})

LegalTransitions ==
  {<<STOPPED, STARTING>>, <<STARTING, READY>>, <<STARTING, STOPPED>>,
   <<READY, STOPPING>>, <<STOPPING, STOPPED>>,
   <<STOPPED, SHUTDOWN>>, <<READY, SHUTDOWN>>, <<STOPPING, SHUTDOWN>>}

\* C6: every stateChange a Process emits is a legal transition (READY to
\* STOPPED is accepted when the child's exit causes it).
C6_OnlyLegalTransitions ==
  \A i \in 1..Len(last.ev) :
    \/ <<last.ev[i].oldState, last.ev[i].newState>> \in LegalTransitions
    \/ /\ last.ev[i].oldState = READY
       /\ last.ev[i].newState = STOPPED
       /\ last.ev[i].by = "exit"

\* C7: SHUTDOWN is terminal: no Process ever leaves it.
C7_ShutdownTerminal ==
  \A i \in 1..Len(last.ev) :
    last.ev[i].oldState = SHUTDOWN => last.ev[i].newState = SHUTDOWN

\* C8: no step of a handler working for a model of another group calls
\* stop on a member of a persistent group or changes its state.
C8_PersistentUntouched ==
  HandlerStep =>
    \A p \in Models :
      (GroupPersistent[GroupOf(p)] /\ GroupOf(p) # GroupOf(last.model)) =>
        /\ p \notin last.stops
        /\ \A i \in 1..Len(last.ev) : last.ev[i].id # p

\* A request for a member of the exclusive group has just stopped a READY
\* member of another group while the persistent group's member is READY.
C8_Witness ==
  /\ last.op = "Request"
  /\ last.model # NoModel
  /\ GroupExclusive[GroupOf(last.model)]
  /\ \E i \in 1..Len(last.ev) :
       last.ev[i].by = "stop" /\ last.ev[i].oldState = READY
  /\ \E p \in Models : GroupPersistent[GroupOf(p)] /\ state[p] = READY

\* C9: the in-flight counter of a Process is 0 whenever the Process is
\* STOPPED or SHUTDOWN.
C9_IdleWhenStopped ==
  \A p \in Models :
    state[p] \in {STOPPED, SHUTDOWN} => inFlightRequests[p] = 0


(***************************************************************************)
(* Direct calls of Process.addInFlightRequest and                          *)
(* Process.removeInFlightRequest, in any order, on any Process.             *)
(***************************************************************************)
InitInFlight == Init

AddInFlight(p) ==
  /\ inFlightRequests[p] < MaxInFlight
  /\ NoCall
  /\ Event(addInFlightRequest(Now, p), "AddInFlight", p)

RemoveInFlight(p) ==
  /\ NoCall
  /\ Event(removeInFlightRequest(Now, p), "RemoveInFlight", p)

NextInFlight ==
  \/ \E p \in Models : AddInFlight(p)
  \/ \E p \in Models : RemoveInFlight(p)

SpecInFlight == InitInFlight /\ [][NextInFlight]_vars

\* C10: the in-flight counter of every Process is never negative.
C10_InFlightNonNegative ==
  \A p \in Models : inFlightRequests[p] >= 0

\* removeInFlightRequest has just been called on a counter that is 0.
C10_Witness ==
  /\ last.op = "RemoveInFlight"
  /\ last.inFlightBefore = 0
  /\ inFlightRequests[last.model] = 0


(***************************************************************************)
(* Registration and release of requests by ProcessGroup.proxyRequest.      *)
(***************************************************************************)
\* The proxyRequest calls that have registered a request with p and have
\* not released it yet.
Registered(p) == {t \in Tasks : pc[t] = "forward" /\ model[t] = p}

\* C11: the in-flight counter of a Process counts exactly the requests that
\* are registered with it and not yet completed: each registered request is
\* released once, whether its forwarding ends normally or throws, and a
\* request that fails before it is registered leaves the counter alone.
C11_ReleasedExactlyOnce ==
  \A p \in Models : inFlightRequests[p] = Cardinality(Registered(p))

\* The forwarding of a registered request has thrown and the request has
\* been released.
C11_Witness ==
  /\ last.op = "Forward"
  /\ last.result = "fail"
  /\ last.inFlightBefore = 1
  /\ inFlightRequests[last.model] = 0

(***************************************************************************)
(* Concurrent calls of Process.start.                                      *)
(***************************************************************************)
\* The positions of a start() call that has spawned a child and has not
\* returned yet.
Spawned == {"startDelay", "probe", "probeSleep"}

\* C12: of the start() calls that are in progress on one Process at the
\* same time, at most one has spawned a child; the others are in the wait
\* for the first one's outcome.
C12_OneSpawnPerStart ==
  \A t \in Tasks : \A u \in Tasks \ {t} :
    (model[t] = model[u] /\ pc[t] \in Spawned) => pc[u] \notin Spawned

(***************************************************************************)
(* Dispatch of a request to its Process.                                   *)
(***************************************************************************)
\* C13: a request is registered with a Process, and forwarded to it, only
\* while that Process is READY.
C13_RegisteredOnlyWhenReady ==
  \A t \in Tasks : pc[t] = "forward" => state[model[t]] = READY

\* The latest macrotask was the dispatch of a request (by a route handler
\* or by proxyRequest) for a model whose Process had been spawned before
\* and was STOPPED, and the dispatch is past the swap.
DispatchedToStopped ==
  /\ last.op \in {"Request", "ProxyRequest"}
  /\ last.model # NoModel
  /\ last.stateBefore = STOPPED
  /\ last.model \notin last.spawns => process[last.model] # 0
  /\ pc[last.task] # "swapWait"

\* C14: the dispatch of a request for a model whose Process is STOPPED
\* after an earlier run calls start() on it: the Process leaves STOPPED for
\* STARTING in that dispatch.
C14_StartedOnDemand ==
  DispatchedToStopped =>
    \E i \in 1..Len(last.ev) :
      /\ last.ev[i].id = last.model
      /\ last.ev[i].oldState = STOPPED
      /\ last.ev[i].newState = STARTING

(***************************************************************************)
(* The health gate of Process.start.                                       *)
(***************************************************************************)
\* The latest macrotask was the end of a start() whose health gate timed
\* out.
HealthTimedOut ==
  /\ last.op = "ProbeSleepDone"
  /\ \E i \in 1..Len(last.ev) : last.ev[i].by = "catch"

\* C15: when the health gate times out, start() fails, the Process is
\* STOPPED and every child of it that is still alive has been sent the
\* termination action.
C15_TimeoutKillsChild ==
  HealthTimedOut =>
    /\ last.result = "fail"
    /\ state[last.model] = STOPPED
    /\ children[last.model] \subseteq signalled[last.model]

(***************************************************************************)
(* A sequential schedule: each request is dispatched by a route handler    *)
(* after the previous one has been answered; every spawn and every health  *)
(* probe succeeds, children exit only when signalled, and no TTL interval  *)
(* ticks during the schedule.                                              *)
(***************************************************************************)
AllIdle == \A t \in Tasks : pc[t] = "idle"

SwapRequest(t, m) == AllIdle /\ Request(t, m, FALSE)

SignalledExit(p, c) == c \in signalled[p] /\ ChildExit(p, c)

NextRoundTrip ==
  \/ \E t \in Tasks, m \in Models : SwapRequest(t, m)
  \/ \E t \in Tasks : SwapWaitDone(t, FALSE)
  \/ \E t \in Tasks : StartDelayDone(t)
  \/ \E t \in Tasks : ProbeDone(t, TRUE)
  \/ \E p \in Models, c \in ChildIds : SignalledExit(p, c)

SpecRoundTrip == Init /\ [][NextRoundTrip]_vars

\* The READY members of the non-persistent groups.
NonPersistentReady ==
  {p \in Models : ~GroupPersistent[GroupOf(p)] /\ state[p] = READY}

\* C16: whenever every request of the schedule has been answered, all
\* in-flight counters are 0, the last-used model of the last-swapped group
\* is READY and no other member of a non-persistent group is READY (after
\* a swap to a persistent group: at most the member that was READY before).
C16_RoundTrip ==
  (AllIdle /\ lastActiveGroup # NoGroup) =>
    /\ \A p \in Models : inFlightRequests[p] = 0
    /\ state[lastUsedProcess[lastActiveGroup]] = READY
    /\ IF GroupPersistent[lastActiveGroup]
       THEN Cardinality(NonPersistentReady) <= 1
       ELSE NonPersistentReady = {lastUsedProcess[lastActiveGroup]}

(***************************************************************************)
(* TTL eviction of a Process with unloadAfter > 0.  Requests reach it      *)
(* through the route handlers and through proxyRequest; its armed          *)
(* intervals keep ticking, time keeps passing, and a child that has been   *)
(* sent the termination action exits.                                      *)
(***************************************************************************)
NextTTL ==
  \/ \E t \in Tasks, p \in HasTTL, throws \in BOOLEAN : Request(t, p, throws)
  \/ \E t \in Tasks, p \in HasTTL, throws \in BOOLEAN :
       ProxyRequest(t, GroupOf(p), p, throws)
  \/ \E t \in Tasks, throws \in BOOLEAN : Forward(t, throws)
  \/ \E t \in Tasks : StartDelayDone(t)
  \/ \E t \in Tasks, status200 \in BOOLEAN : ProbeDone(t, status200)
  \/ \E t \in Tasks, timedOut \in BOOLEAN : ProbeSleepDone(t, timedOut)
  \/ \E t \in Tasks : StartWaitDone(t)
  \/ \E p \in HasTTL, c \in ChildIds : ChildExit(p, c)
  \/ \E p \in HasTTL : TTLTick(p)
  \/ \E p \in HasTTL : Elapse(p)

SpecTTL ==
  /\ Init
  /\ [][NextTTL]_vars
  /\ \A p \in HasTTL :
       /\ WF_vars(TTLTick(p))
       /\ WF_vars(Elapse(p))
       /\ WF_vars(\E c \in ChildIds : SignalledExit(p, c))
  /\ WF_vars(\E t \in Tasks, throws \in BOOLEAN : Forward(t, throws))

\* C17: a Process with unloadAfter > 0 that is READY with no request in
\* flight, and that no further request is dispatched to, eventually is
\* STOPPED.
C17_TTLEvicts ==
  \A p \in HasTTL :
    (state[p] = READY /\ inFlightRequests[p] = 0 /\ calls = MaxCalls)
      ~> (state[p] = STOPPED)

(***************************************************************************)
(* The methods of one Process under direct calls: start() and stop() by    *)
(* callers that may overlap, addInFlightRequest and removeInFlightRequest  *)
(* by a proxy whose requests last, the TTL interval, the passing of time   *)
(* and the exit of children.                                               *)
(***************************************************************************)
\* The Processes that are called directly: one with unloadAfter > 0 and a
\* health endpoint, one with neither.
Direct == {"A", "B"}

\* Whether a stop() call on p enters the wait for the in-flight counter.
stopWaits(s, p, strategy) ==
  /\ s.state[p] \notin {STOPPED, STOPPING, SHUTDOWN}
  /\ strategy = WAIT_FOR_INFLIGHT
  /\ s.inFlightRequests[p] > 0

\* The stop() calls that are in the wait for the in-flight counter of p.
Waiting(p) == {t \in Tasks : pc[t] = "stopWait" /\ model[t] = p}

\* Process.start is called on p.
StartCall(t, p, throws) ==
  /\ Call
  /\ Free(t)
  /\ AfterStart(startCall(Now, p, throws), "StartCall", t, "start", p,
                NoModel, {})

\* Process.stop is called on p: it returns at once, or after issuing the
\* termination action, or it enters the wait.
StopCall(t, p, strategy) ==
  /\ Call
  /\ Free(t)
  /\ IF stopWaits(Now, p, strategy)
     THEN Suspend(stop(Now, p, strategy), "StopCall", t, "stopWait", "stop",
                  p, NoModel, {})
     ELSE Respond(stop(Now, p, strategy), "StopCall", t, p, strategy)

\* A poll of stop()'s wait finds the in-flight counter at 0: the loop ends
\* and stopCommand is called.
StopWaitDone(t) ==
  /\ NoCall
  /\ pc[t] = "stopWait"
  /\ inFlightRequests[model[t]] = 0
  /\ LET p  == model[t]
         s1 == IF Waiting(p) = {t} THEN [Now EXCEPT !.stopPolls = @ \ {p}]
               ELSE Now
     IN  Respond(stopCommand(s1, p), "StopWaitDone", t, p, WAIT_FOR_INFLIGHT)

\* The proxy registers a request with p, which it has found READY.
HoldRequest(p) == state[p] = READY /\ AddInFlight(p)

\* A request registered with p ends and the proxy releases it.
ReleaseRequest(p) == inFlightRequests[p] > 0 /\ RemoveInFlight(p)

NextProcess ==
  \/ \E t \in Tasks, p \in Direct, throws \in BOOLEAN : StartCall(t, p, throws)
  \/ \E t \in Tasks, p \in Direct, strategy \in StopStrategy :
       StopCall(t, p, strategy)
  \/ \E t \in Tasks : StopWaitDone(t)
  \/ \E p \in Direct : HoldRequest(p)
  \/ \E p \in Direct : ReleaseRequest(p)
  \/ \E t \in Tasks : StartDelayDone(t)
  \/ \E t \in Tasks, status200 \in BOOLEAN : ProbeDone(t, status200)
  \/ \E t \in Tasks, timedOut \in BOOLEAN : ProbeSleepDone(t, timedOut)
  \/ \E t \in Tasks : StartWaitDone(t)
  \/ \E p \in Direct, c \in ChildIds : ChildExit(p, c)
  \/ \E p \in Direct : TTLTick(p)
  \/ \E p \in Direct : Elapse(p)

SpecProcess == Init /\ [][NextProcess]_vars

\* C18: a TTL tick calls stop only if it finds the Process READY with an
\* in-flight counter of 0 and an idle time above unloadAfter; a tick that
\* finds another state cancels its interval and changes nothing else; a
\* Process with unloadAfter = 0 has no TTL interval.
C18_TTLStopsOnlyIdleReady ==
  /\ \A p \in Models \ HasTTL : ttl[p] = 0
  /\ last.op = "TTLTick" =>
       /\ last.stops # {} =>
            /\ last.stops = {last.model}
            /\ last.model \in HasTTL
            /\ last.stateBefore = READY
            /\ last.inFlightBefore = 0
            /\ last.expiredBefore
       /\ last.stateBefore # READY =>
            /\ last.ev = <<>> /\ last.stops = {} /\ last.kills = {}
            /\ ttl[last.model] = last.ttlBefore - 1

\* A tick has found the Process READY and idle for longer than unloadAfter
\* but with a request in flight, and has not called stop.
C18_Witness ==
  /\ last.op = "TTLTick"
  /\ last.stateBefore = READY
  /\ last.inFlightBefore > 0
  /\ last.expiredBefore
  /\ last.stops = {}
  /\ state[last.model] = READY

\* C19: a TTL tick stops a Process only when more than unloadAfter has
\* passed since the Process last released a request.
C19_TTLClockResetsOnRelease ==
  (last.op = "TTLTick" /\ last.model \in last.stops) => idle[last.model]

\* The latest macrotask issued the termination action from a
\* stop(WAIT_FOR_INFLIGHT).
WaitingStopKilled ==
  /\ last.op \in {"StopCall", "StopWaitDone"}
  /\ last.result = WAIT_FOR_INFLIGHT
  /\ last.model \in last.kills

\* C20: stop(WAIT_FOR_INFLIGHT) issues the termination action only at an
\* in-flight counter of 0, and the Process is STOPPING as long as a stop()
\* waits for its counter.
C20_StopWaitsForInFlight ==
  /\ WaitingStopKilled => last.inFlightBefore = 0
  /\ \A t \in Tasks : pc[t] = "stopWait" => state[model[t]] = STOPPING

(***************************************************************************)
(* The sequential schedule with progress: timers fire, probes are          *)
(* answered and signalled children exit.                                   *)
(***************************************************************************)
SpecRoundTripFair ==
  /\ SpecRoundTrip
  /\ WF_vars(\E t \in Tasks : SwapWaitDone(t, FALSE))
  /\ WF_vars(\E t \in Tasks : StartDelayDone(t))
  /\ WF_vars(\E t \in Tasks : ProbeDone(t, TRUE))
  /\ WF_vars(\E p \in Models, c \in ChildIds : SignalledExit(p, c))

\* A request for model a is dispatched while the last active group h is
\* another group, both non-persistent.
CrossGroupRequest(a, h) ==
  /\ last'.op = "Request"
  /\ last'.model = a
  /\ lastActiveGroup = h
  /\ h # GroupOf(a)
  /\ ~GroupPersistent[h] /\ ~GroupPersistent[GroupOf(a)]

\* The latest macrotask was the dispatch of a request for a whose swap
\* stopped the READY member c of another group.
SwapStoppedReady(a, c) ==
  /\ last.op = "Request"
  /\ last.model = a
  /\ GroupOf(c) # GroupOf(a)
  /\ \E i \in 1..Len(last.ev) :
       /\ last.ev[i].id = c
       /\ last.ev[i].oldState = READY
       /\ last.ev[i].by = "stop"

\* C21: a request for a model of another non-persistent group than the
\* last active one, itself non-persistent, calls stop on every member of
\* the last active group and clears its lastUsedProcess; a READY member it
\* stopped eventually is STOPPED and the requested model eventually READY.
C21_CrossGroupSwap ==
  /\ [][\A a \in Models : \A h \in Groups :
         CrossGroupRequest(a, h) =>
           /\ MembersOf(h) \subseteq last'.stops
           /\ lastUsedProcess'[h] = NoModel]_vars
  /\ \A a \in Models : \A c \in Models :
       /\ SwapStoppedReady(a, c) ~> (state[c] = STOPPED)
       /\ SwapStoppedReady(a, c) ~> (state[a] = READY)

\* A request for a model of the non-exclusive group has just stopped the
\* READY member of the last active group.
C21_Witness ==
  \E a \in Models : \E c \in Models :
    /\ SwapStoppedReady(a, c)
    /\ ~GroupExclusive[GroupOf(a)]
    /\ lastUsedProcess[GroupOf(c)] = NoModel
    /\ state[c] = STOPPING

\* C22: lastActiveGroup never names a persistent group.
C22_LastActiveNonPersistent ==
  lastActiveGroup # NoGroup => ~GroupPersistent[lastActiveGroup]

\* C23: when shutdownAll has completed the shutdown flag is set, every
\* Process is SHUTDOWN and every child alive has been sent its termination
\* action.
C23_ShutdownAllComplete ==
  last.op = "ShutdownAll" =>
    /\ shutdown
    /\ \A p \in Models : state[p] = SHUTDOWN
    /\ \A p \in Models : children[p] \subseteq signalled[p]

\* C24: once shutdownAll has run, the dispatch of a request fails, spawns
\* no child and moves no Process out of SHUTDOWN.
C24_NoSwapAfterShutdown ==
  (shutdown /\ last.op = "Request" /\ last.model # NoModel) =>
    /\ last.result = "fail"
    /\ last.spawns = {}
    /\ \A i \in 1..Len(last.ev) : last.ev[i].oldState # SHUTDOWN

\* The names that are neither a configured model id nor an alias.
UnknownNames == Names \ (Models \cup DOMAIN Aliases)

\* C25: the dispatch of a request whose name is neither a model id nor an
\* alias fails and leaves every Process state, every lastUsedProcess and
\* lastActiveGroup as they were.
C25_UnknownModelNoEffect ==
  [][\A t \in Tasks : \A n \in UnknownNames : \A throws \in BOOLEAN :
       Request(t, n, throws) =>
         /\ last'.result = "fail"
         /\ UNCHANGED <<state, lastUsedProcess, lastActiveGroup, children>>]_vars

\* An unknown name has just been refused while a model was READY in the
\* last active group.
C25_Witness ==
  /\ last.op = "Request"
  /\ last.model = NoModel
  /\ last.result = "fail"
  /\ lastActiveGroup # NoGroup
  /\ lastUsedProcess[lastActiveGroup] # NoModel
  /\ state[lastUsedProcess[lastActiveGroup]] = READY

\* The states in which stop returns at once.
StopIgnored == {STOPPED, STOPPING, SHUTDOWN}

\* C26: a macrotask that calls stop, with either strategy, on a Process that
\* is STOPPED, STOPPING or SHUTDOWN emits no stateChange from stop for it,
\* sends its child no termination action and, unless the caller itself sets
\* SHUTDOWN afterwards, leaves its state as it was.
C26_StopNoOp ==
  [][\A p \in Models :
       (p \in last'.stops /\ state[p] \in StopIgnored) =>
         /\ \A i \in 1..Len(last'.ev) :
              last'.ev[i].id = p => last'.ev[i].by # "stop"
         /\ p \notin last'.kills
         /\ signalled'[p] \subseteq signalled[p]
         /\ last'.op # "ShutdownAll" => state'[p] = state[p]]_vars

\* stop(IMMEDIATELY) has just been called on a Process that was STOPPING
\* with its child still alive, and nothing happened.
C26_Witness ==
  /\ last.op = "UnloadModel"
  /\ last.stateBefore = STOPPING
  /\ last.model \in last.stops
  /\ last.ev = <<>>
  /\ last.kills = {}
  /\ state[last.model] = STOPPING
  /\ children[last.model] # {}

(***************************************************************************)
(* The ProcessGroup interface called directly: proxyRequest and            *)
(* stopProcesses, with the continuations of the starts they begin.         *)
(***************************************************************************)
\* ProcessGroup.stopProcesses(strategy) is called on group g.
StopProcessesCall(g, strategy) ==
  /\ NoForward
  /\ Call
  /\ Event(stopProcesses(Now, g, strategy), "StopProcesses", NoModel)

NextGroup ==
  \/ \E t \in Tasks, g \in Groups, m \in Models, throws \in BOOLEAN :
       ProxyRequest(t, g, m, throws)
  \/ \E t \in Tasks, throws \in BOOLEAN : Forward(t, throws)
  \/ \E t \in Tasks : StartDelayDone(t)
  \/ \E t \in Tasks, status200 \in BOOLEAN : ProbeDone(t, status200)
  \/ \E t \in Tasks, timedOut \in BOOLEAN : ProbeSleepDone(t, timedOut)
  \/ \E t \in Tasks : StartWaitDone(t)
  \/ \E p \in Models, c \in ChildIds : ChildExit(p, c)
  \/ \E g \in Groups, strategy \in StopStrategy :
       StopProcessesCall(g, strategy)

SpecGroup == Init /\ [][NextGroup]_vars

\* C27: a call of stopProcesses on a group, with either strategy, leaves
\* the group's lastUsedProcess cleared.
C27_StopProcessesClears ==
  [][\A g \in Groups : \A strategy \in StopStrategy :
       StopProcessesCall(g, strategy) => lastUsedProcess'[g] = NoModel]_vars

(***************************************************************************)
(* ConfigLoader.loadConfig (config-loader.js, src/unnamed/part_001), from  *)
(* the parsed file to the configuration it returns.  A configuration file  *)
(* names its models (in the order of the file) with their aliases and      *)
(* whether cmd and proxy contain ${PORT} (a model without a proxy gets     *)
(* 'http://localhost:${PORT}'), its groups with their flags and members,   *)
(* and startPort.  Macros, comments and URLs are taken to be valid.        *)
(***************************************************************************)
ModelNames == {"ma", "mb"}
AliasNames == {"mb", "x"}
DefaultGroupId == "(default)"
GroupIds == {DefaultGroupId, "g"}
\* config.startPort when the file does not set it.
DefaultStartPort == 5800
StartPorts == {0, DefaultStartPort}

\* The order Array.prototype.sort puts the names in (UTF-16 code units).
NameOrder == <<"ma", "mb", "x">>
Rank(n) == CHOOSE i \in 1..Len(NameOrder) : NameOrder[i] = n

SeqsUpTo(S, n) == UNION {[1..k -> S] : k \in 0..n}

ModelConfigs ==
  [id : ModelNames, aliases : SeqsUpTo(AliasNames, MaxAliases),
   cmdHasPort : BOOLEAN, proxyHasPort : BOOLEAN]

\* The models of a file: keys of a YAML mapping, hence distinct.
ModelLists ==
  {<<>>} \cup {<<c>> : c \in ModelConfigs}
         \cup {l \in [1..2 -> ModelConfigs] : l[1].id # l[2].id}

GroupFlags ==
  {[swap |-> TRUE, exclusive |-> FALSE, persistent |-> FALSE],
   [swap |-> FALSE, exclusive |-> FALSE, persistent |-> TRUE]}

GroupConfigs ==
  {[swap |-> f.swap, exclusive |-> f.exclusive, persistent |-> f.persistent,
    members |-> ms] : f \in GroupFlags, ms \in SeqsUpTo(ModelNames, MaxMembers)}

GroupMaps == UNION {[D -> GroupConfigs] : D \in SUBSET GroupIds}

YamlInputs == [models : ModelLists, groups : GroupMaps, startPort : StartPorts]

\* Object.keys(config.models)
modelKeys(models) == {models[i].id : i \in 1..Len(models)}

\* config.models[id]
modelConfigOf(models, id) ==
  models[CHOOSE i \in 1..Len(models) : models[i].id = id]

\* Array.prototype.sort on distinct names.
RECURSIVE sort(_)
sort(S) ==
  IF S = {} THEN <<>>
  ELSE LET m == CHOOSE x \in S : \A y \in S : Rank(x) <= Rank(y)
       IN  <<m>> \o sort(S \ {m})

\* ConfigLoader.addDefaultGroupToConfig: the groups of the configuration
\* after the call.
addDefaultGroupToConfig(models, groups) ==
  LET found(m) == \E g \in DOMAIN groups : m \in Range(groups[g].members)
      members == IF DOMAIN groups = {} THEN modelKeys(models)
                 ELSE {m \in modelKeys(models) : ~found(m)}
      defaultGroup == [swap |-> TRUE, exclusive |-> TRUE,
                       persistent |-> FALSE, members |-> sort(members)]
  IN  [g \in DOMAIN groups \cup {DefaultGroupId} |->
         IF g = DefaultGroupId THEN defaultGroup ELSE groups[g]]

\* loadConfig's alias loop from alias j of model i on: a name already in the
\* map aborts the load.
RECURSIVE populateAliases(_, _, _, _)
populateAliases(models, i, j, acc) ==
  IF i > Len(models) THEN acc
  ELSE IF j > Len(models[i].aliases)
       THEN populateAliases(models, i + 1, 1, acc)
  ELSE LET alias == models[i].aliases[j]
       IN  IF alias \in DOMAIN acc.aliases
           THEN [ok |-> FALSE, aliases |-> acc.aliases]
           ELSE populateAliases(models, i, j + 1,
                  [ok |-> TRUE,
                   aliases |-> acc.aliases @@ (alias :> models[i].id)])

\* The port loop with a nextPort that is never incremented.
RECURSIVE assignPortsFixed(_, _, _, _)
assignPortsFixed(models, modelIds, i, acc) ==
  IF i > Len(modelIds) THEN acc
  ELSE LET modelConfig == modelConfigOf(models, modelIds[i])
       IN  IF modelConfig.cmdHasPort \/ modelConfig.proxyHasPort
           THEN IF ~modelConfig.cmdHasPort
                THEN [acc EXCEPT !.ok = FALSE]
                ELSE assignPortsFixed(models, modelIds, i + 1,
                       [ok |-> TRUE, nextPort |-> acc.nextPort,
                        ports |-> acc.ports @@ (modelIds[i] :> acc.nextPort)])
           ELSE assignPortsFixed(models, modelIds, i + 1, acc)

\* loadConfig's loop over the sorted model ids from modelIds[i] on: a model
\* whose cmd or proxy contains ${PORT} takes nextPort, unless only its proxy
\* does, which aborts the load.
RECURSIVE assignPorts(_, _, _, _)
assignPorts(models, modelIds, i, acc) ==
  IF i > Len(modelIds) THEN acc
  ELSE LET modelConfig == modelConfigOf(models, modelIds[i])
       IN  IF modelConfig.cmdHasPort \/ modelConfig.proxyHasPort
           THEN IF ~modelConfig.cmdHasPort
                THEN [acc EXCEPT !.ok = FALSE]
                ELSE assignPorts(models, modelIds, i + 1,
                       [ok |-> TRUE, nextPort |-> acc.nextPort + 1,
                        ports |-> acc.ports @@ (modelIds[i] :> acc.nextPort)])
           ELSE assignPorts(models, modelIds, i + 1, acc)

\* loadConfig's check of the group members: none twice in one group, none in
\* two groups (group ids are not empty, so memberUsage[member] is truthy
\* once set).
membersUnique(groups) ==
  /\ \A g \in DOMAIN groups :
       \A i, j \in 1..Len(groups[g].members) :
         groups[g].members[i] = groups[g].members[j] => i = j
  /\ \A g, h \in DOMAIN groups :
       g # h => Range(groups[g].members) \cap Range(groups[h].members) = {}

\* loadConfig throws.
loadError(message) == [ok |-> FALSE, error |-> message]

\* ConfigLoader.loadConfig
loadConfig(y) ==
  IF y.startPort < 1 THEN loadError("startPort")
  ELSE
  LET al == populateAliases(y.models, 1, 1, [ok |-> TRUE, aliases |-> <<>>])
      pt == assignPorts(y.models, sort(modelKeys(y.models)), 1,
                        [ok |-> TRUE, nextPort |-> y.startPort,
                         ports |-> <<>>])
      gs == addDefaultGroupToConfig(y.models, y.groups)
  IN  IF ~al.ok THEN loadError("duplicate alias")
      ELSE IF ~pt.ok THEN loadError("proxy uses PORT but cmd does not")
      ELSE IF ~membersUnique(gs) THEN loadError("model member")
      ELSE [ok |-> TRUE, error |-> "", models |-> modelKeys(y.models),
            aliases |-> al.aliases, ports |-> pt.ports, groups |-> gs,
            startPort |-> y.startPort]

\* A configuration file is there, the process manager not yet built.
InitConfig ==
  /\ state = [p \in Models |-> STOPPED]
  /\ process = [p \in Models |-> 0]
  /\ children = [p \in Models |-> {}]
  /\ signalled = [p \in Models |-> {}]
  /\ inFlightRequests = [p \in Models |-> 0]
  /\ expired = [p \in Models |-> TRUE]
  /\ idle = [p \in Models |-> TRUE]
  /\ ttl = [p \in Models |-> 0]
  /\ stopPolls = {}
  /\ lastUsedProcess = [g \in Groups |-> NoModel]
  /\ lastActiveGroup = NoGroup
  /\ shutdown = FALSE
  /\ pc = [t \in Tasks |-> "idle"]
  /\ kind = [t \in Tasks |-> "none"]
  /\ model = [t \in Tasks |-> NoModel]
  /\ old = [t \in Tasks |-> NoModel]
  /\ swapStopped = [t \in Tasks |-> {}]
  /\ calls = 0
  /\ yamlData \in YamlInputs
  /\ config = Unread
  /\ waited = [t \in Tasks |-> "-"]
  /\ stopTarget = [t \in Tasks |-> 0]
  /\ aged = [p \in Models |-> FALSE]
  /\ last = NoChange

\* The server calls configLoader.loadConfig at startup.
LoadConfig ==
  /\ config = Unread
  /\ config' = loadConfig(yamlData)
  /\ last' = [NoChange EXCEPT !.op = "LoadConfig"]
  /\ UNCHANGED <<state, process, children, signalled, inFlightRequests,
                 expired, idle, ttl, stopPolls, lastUsedProcess,
                 lastActiveGroup, shutdown, pc, kind, model, old,
                 swapStopped, calls, yamlData, waited,
                 stopTarget, aged>>

NextConfig == LoadConfig

SpecConfig == InitConfig /\ [][NextConfig]_vars

\* The groups of the loaded configuration that list model m.
GroupsOf(m) ==
  {g \in DOMAIN config.groups : m \in Range(config.groups[g].members)}

\* C28: after a successful load every configured model id is a member of
\* exactly one group, and the '(default)' group has swap = true,
\* exclusive = true, persistent = false.
C28_EveryModelInOneGroup ==
  config.ok =>
    /\ \A m \in config.models : Cardinality(GroupsOf(m)) = 1
    /\ config.groups[DefaultGroupId].swap
    /\ config.groups[DefaultGroupId].exclusive
    /\ ~config.groups[DefaultGroupId].persistent

\* The configured models whose cmd or proxy contains ${PORT}.
PortModels ==
  {m \in modelKeys(yamlData.models) :
     \/ modelConfigOf(yamlData.models, m).cmdHasPort
     \/ modelConfigOf(yamlData.models, m).proxyHasPort}

\* C29: after a successful load the models that reference ${PORT}, and only
\* they, have a port; taken in model-id order their ports are startPort,
\* startPort + 1, ..., so no two models share a port.
C29_PortsMonotonic ==
  config.ok =>
    LET ids == sort(PortModels)
    IN  /\ DOMAIN config.ports = PortModels
        /\ \A i \in 1..Len(ids) :
             config.ports[ids[i]] = config.startPort + i - 1
        /\ \A m, n \in PortModels :
             config.ports[m] = config.ports[n] => m = n

\* A file that names mb before ma, both with ${PORT}, has been loaded.
C29_Witness ==
  /\ config.ok
  /\ Len(yamlData.models) = 2
  /\ yamlData.models[1].id = "mb"
  /\ PortModels = {"ma", "mb"}
  /\ config.ports["ma"] = DefaultStartPort
  /\ config.ports["mb"] = DefaultStartPort + 1

\* The models of the file that declare alias a, one entry per declaration.
Declarations(a) ==
  {<<i, j>> \in (1..Len(yamlData.models)) \X (1..MaxAliases) :
     /\ j <= Len(yamlData.models[i].aliases)
     /\ yamlData.models[i].aliases[j] = a}

\* C30: after a successful load every alias of the alias map was declared
\* once, by the model it maps to, and no alias is a configured model id.
C30_AliasesDisjoint ==
  config.ok =>
    \A a \in DOMAIN config.aliases :
      /\ Cardinality(Declarations(a)) = 1
      /\ \A d \in Declarations(a) : yamlData.models[d[1]].id = config.aliases[a]
      /\ a \notin config.models

\* C31: a Process that is STOPPED has no child alive.
C31_StoppedNoChild ==
  \A p \in Models : state[p] = STOPPED => children[p] = {}

\* The latest macrotask was the exit of a child of p while p was STARTING.
ExitedWhileStarting(p) ==
  /\ last.op = "ChildExit"
  /\ last.model = p
  /\ last.stateBefore = STARTING

\* Handler t is inside a start() that has spawned its child.
StartPending(t) == pc[t] \in {"startDelay", "probe", "probeSleep"}

\* C32: when a child exits while its Process is STARTING the Process is
\* STOPPED, and the next step of a start pending on it does not set READY
\* and, if it ends the start, ends it with a failure.
C32_ExitDuringStartFails ==
  /\ [](\A p \in Models : ExitedWhileStarting(p) => state[p] = STOPPED)
  /\ [][\A t \in Tasks :
          (StartPending(t) /\ ExitedWhileStarting(model[t])
             /\ pc'[t] # pc[t]) =>
            /\ state'[model[t]] # READY
            /\ pc'[t] = "idle" => last'.result = "fail"]_vars

\* C33: a step that makes a model the lastUsedProcess of its group leaves
\* that model READY (its start has succeeded), and a request whose dispatch
\* ends in a failed start leaves the lastUsedProcess of the target's group
\* as it was.
C33_LastUsedAfterStart ==
  [][\A m \in Models :
       /\ (lastUsedProcess'[GroupOf(m)] = m /\ lastUsedProcess[GroupOf(m)] # m)
            => state'[m] = READY
       /\ (last'.op \in {"Request", "ProxyRequest"} /\ last'.model = m
             /\ last'.result = "fail")
            => lastUsedProcess'[GroupOf(m)] = lastUsedProcess[GroupOf(m)]]_vars

\* Handler t's start() leaves its coalescing wait in this step.
WaitEnds(t) == pc[t] = "startWait" /\ pc'[t] # "startWait"

\* C34: a start() that found the Process STARTING returns true if and only
\* if the Process left STARTING for READY.
C34_CoalescedStartResult ==
  [][\A t \in Tasks :
       WaitEnds(t) => (last'.result # "fail" <=> waited[t] = READY)]_vars

(***************************************************************************)
(* Spawn failures.  child_process.spawn throws synchronously for invalid   *)
(* arguments (the `throws` of StartCall); when the executable cannot be    *)
(* run (ENOENT, EACCES) it returns a ChildProcess without an OS process    *)
(* and reports the failure through the 'error' event, whose listener in    *)
(* start() only logs.                                                      *)
(***************************************************************************)
\* start() up to its first suspension when spawn fails through the 'error'
\* event: this.process is assigned, no child is alive.
startCallSpawnError(s, p) ==
  IF s.state[p] = READY THEN [s |-> s, at |-> "true"]
  ELSE IF s.state[p] = STARTING THEN [s |-> s, at |-> "startWait"]
  ELSE IF s.state[p] # STOPPED /\ s.state[p] # STOPPING
       THEN [s |-> s, at |-> "false"]
  ELSE LET s1 == setState(s, p, STARTING, "start")
           free == ChildIds \ s.children[p]
       IN  IF free = {} THEN [s |-> s, at |-> "blocked"]
           ELSE [s |-> [s1 EXCEPT !.process[p] =
                                    CHOOSE i \in free : \A j \in free : i <= j],
                 at |-> "startDelay"]

\* Process.start is called on p, which is STOPPED or STOPPING, and the child
\* cannot be created.
StartCallSpawnError(t, p) ==
  /\ Call
  /\ Free(t)
  /\ state[p] \in {STOPPED, STOPPING}
  /\ AfterStart(startCallSpawnError(Now, p), "StartCall", t, "spawnError", p,
                NoModel, {})

NextSpawn ==
  \/ NextProcess
  \/ \E t \in Tasks, p \in Direct : StartCallSpawnError(t, p)

SpecSpawn == Init /\ [][NextSpawn]_vars

\* C35: a start() whose spawn throws returns false and leaves the Process
\* STOPPED; a start() whose spawn fails through the 'error' event never sets
\* READY and, when it returns, returns false with the Process STOPPED.
C35_SpawnFailureStops ==
  /\ [][\A t \in Tasks : \A p \in Direct :
          (StartCall(t, p, TRUE) /\ state[p] \in {STOPPED, STOPPING}) =>
            /\ last'.result = "fail"
            /\ state'[p] = STOPPED]_vars
  /\ [][\A t \in Tasks :
          (kind[t] = "spawnError" /\ pc'[t] # pc[t]) =>
            /\ \A i \in 1..Len(last'.ev) :
                 last'.ev[i].id = model[t] => last'.ev[i].newState # READY
            /\ pc'[t] = "idle" =>
                 (last'.result = "fail" /\ state'[model[t]] = STOPPED)]_vars

\* Handler t's stop() leaves its wait for the in-flight counter in this step.
StopWaitEnds(t) == pc[t] = "stopWait" /\ pc'[t] # "stopWait"

\* C36: when a stop(WAIT_FOR_INFLIGHT) ends its wait, the only child it
\* sends the termination action to is the one this.process named when stop
\* was called, and that child, if still alive, is sent it.
C36_StopTargetsOldChild ==
  [][\A t \in Tasks :
       StopWaitEnds(t) =>
         /\ signalled'[model[t]] \ signalled[model[t]] \subseteq {stopTarget[t]}
         /\ stopTarget[t] \in children[model[t]] =>
              stopTarget[t] \in signalled'[model[t]]]_vars

(***************************************************************************)
(* The Process interface with progress: requests in flight are released,   *)
(* the polls of stop() and start() and the timers of start() fire, and a   *)
(* child that has been sent the termination action exits.                  *)
(***************************************************************************)
SpecProcessFair ==
  /\ SpecProcess
  /\ \A p \in Direct :
       /\ WF_vars(ReleaseRequest(p))
       /\ WF_vars(\E c \in ChildIds : SignalledExit(p, c))
  /\ WF_vars(\E t \in Tasks : StopWaitDone(t))
  /\ WF_vars(\E t \in Tasks : StartDelayDone(t))
  /\ WF_vars(\E t \in Tasks : StartWaitDone(t))

\* C37: a Process that is STOPPING eventually is STOPPED or SHUTDOWN.
C37_StoppingEnds ==
  \A p \in Direct :
    (state[p] = STOPPING) ~> (state[p] \in {STOPPED, SHUTDOWN})

\* C38: whenever a Process is READY the child it spawned last is alive, and
\* the exit of a child that is not the one spawned last leaves the state of
\* the Process as it was.
C38_StaleExitIgnored ==
  /\ [](\A p \in Models : state[p] = READY => process[p] \in children[p])
  /\ [][\A p \in Models : \A c \in ChildIds :
          (ChildExit(p, c) /\ c # process[p] /\ process[p] \in children[p])
            => state'[p] = state[p]]_vars

\* C39: in a group with swap = true, a member Process that is READY is the
\* one the group's lastUsedProcess names.
C39_ReadyIsLastUsed ==
  \A g \in Groups : \A i \in 1..Len(GroupMembers[g]) :
    (GroupSwap[g] /\ state[GroupMembers[g][i]] = READY)
      => lastUsedProcess[g] = GroupMembers[g][i]

\* C40: a TTL tick stops a Process only when more than unloadAfter has
\* passed since the Process became READY.
C40_TTLWaitsAfterReady ==
  [][\A p \in HasTTL :
       (TTLTick(p) /\ p \in last'.stops) => aged[p]]_vars

=============================================================================
